---- MODULE Spec2Model ----
(***************************************************************************)
(* Cooklang-TS: the image-URL builder and the Recipe class of src/index.ts *)
(* (constructor, toCooklang, toJSON), with the Parser the constructor      *)
(* delegates to.                                                           *)
(*                                                                         *)
(* Strings are sequences of one-character strings.  A JavaScript value     *)
(* that may be undefined, a number or a string is a tagged record (JSVal). *)
(* Numbers are kept in tenths (15 is 1.5), which covers the integers and   *)
(* the one-decimal values the notation's examples use.                     *)
(***************************************************************************)
EXTENDS Integers, Sequences, FiniteSets, TLC

VARIABLES
    pc,            \* "idle" before anything is built, "live" once a Recipe exists
    metadata,      \* Recipe.metadata: sequence of [key, value], in Object.entries order
    steps,         \* Recipe.steps: sequence of steps, each a sequence of items
    shoppingList,  \* Recipe.shoppingList: sequence of [category, items]
    parseCalls,    \* how many times Parser.parse has been invoked
    call,          \* the most recent call: [op |-> ..., ...its arguments]
    ret,           \* what the most recent call returned (a JSVal)
    threw,         \* whether the most recent call ended by throwing
    original       \* the Recipe a re-parse started from

vars == <<pc, metadata, steps, shoppingList, parseCalls, call, ret, threw, original>>

----------------------------------------------------------------------------
(* JavaScript values *)

Undefined == [t |-> "undefined"]
Num(n) == [t |-> "number", tenths |-> n]
Str(s) == [t |-> "string", chars |-> s]

\* ToBoolean: undefined, 0 and "" are falsy.
Truthy(v) ==
    CASE v.t = "undefined" -> FALSE
      [] v.t = "number" -> v.tenths # 0
      [] v.t = "string" -> v.chars # <<>>

DigitChars == <<"0", "1", "2", "3", "4", "5", "6", "7", "8", "9">>

RECURSIVE NatToStr(_)
NatToStr(n) ==
    IF n < 10 THEN <<DigitChars[n + 1]>>
    ELSE NatToStr(n \div 10) \o <<DigitChars[(n % 10) + 1]>>

\* Number to string, as string concatenation does it: 20 -> "2", 15 -> "1.5",
\* -10 -> "-1", 0 -> "0".
NumToStr(n) ==
    LET a == IF n < 0 THEN 0 - n ELSE n
    IN  (IF n < 0 THEN <<"-">> ELSE <<>>)
        \o NatToStr(a \div 10)
        \o (IF a % 10 = 0 THEN <<>> ELSE <<".", DigitChars[(a % 10) + 1]>>)

\* The string a value contributes when concatenated to a string.
JSToString(v) ==
    CASE v.t = "undefined" -> <<"u", "n", "d", "e", "f", "i", "n", "e", "d">>
      [] v.t = "number" -> NumToStr(v.tenths)
      [] v.t = "string" -> v.chars

----------------------------------------------------------------------------
(* getImageURL *)

NoOptions == [t |-> "undefined"]
Options(step, extension) == [t |-> "object", step |-> step, extension |-> extension]

getImageURL(name, options) ==
    LET o == IF options = NoOptions THEN Options(Undefined, Undefined) ELSE options
    IN  name
        \o (IF Truthy(o.step) THEN <<".">> \o JSToString(o.step) ELSE <<>>)
        \o <<".">>
        \o (IF Truthy(o.extension) THEN JSToString(o.extension) ELSE <<"p", "n", "g">>)

MaxStep == 2

\* Steps a caller may pass: every multiple of one half in -MaxStep..MaxStep.
StepValues == {Undefined} \cup {Num(n) : n \in {m \in (0 - 10 * MaxStep)..(10 * MaxStep) : m % 5 = 0}}

ExtensionValues == {Undefined, Str(<<"j", "p", "g">>), Str(<<"p", "n", "g">>)}

NameValues ==
    { <<"S", "o", "u", "p">>,
      <<"B", "a", "k", "e", "d", " ", "P", "o", "t", "a", "t", "o">>,
      <<"a">>,
      <<>> }

OptionValues == {NoOptions} \cup {Options(s, e) : s \in StepValues, e \in ExtensionValues}

NoRecipe == [t |-> "none"]

EmptyRecipeState ==
    /\ metadata = <<>>
    /\ steps = <<>>
    /\ shoppingList = <<>>
    /\ parseCalls = 0
    /\ original = NoRecipe

InitURL ==
    /\ pc = "idle"
    /\ EmptyRecipeState
    /\ call = [op |-> "none"]
    /\ ret = Undefined
    /\ threw = FALSE

GetImageURL(name, options) ==
    /\ pc = "idle"
    /\ call' = [op |-> "getImageURL", name |-> name, options |-> options]
    /\ ret' = Str(getImageURL(name, options))
    /\ threw' = FALSE
    /\ UNCHANGED <<pc, metadata, steps, shoppingList, parseCalls, original>>

NextURL == \E name \in NameValues, options \in OptionValues : GetImageURL(name, options)

SpecURL == InitURL /\ [][NextURL]_vars

----------------------------------------------------------------------------
(* The Recipe's data *)

TextItem(value) == [type |-> "text", value |-> value]
Ingredient(name, quantity, units) ==
    [type |-> "ingredient", name |-> name, quantity |-> quantity, units |-> units]
\* A cookware item carries no units property.
Cookware(name, quantity) == [type |-> "cookware", name |-> name, quantity |-> quantity]
Timer(name, quantity, units) ==
    [type |-> "timer", name |-> name, quantity |-> quantity, units |-> units]

MetaEntry(key, value) == [key |-> key, value |-> value]
ShopItem(name, synonym) == [name |-> name, synonym |-> synonym]
Category(category, items) == [category |-> category, items |-> items]

\* item.units, undefined when the item has no such property.
UnitsOf(item) == IF "units" \in DOMAIN item THEN item.units ELSE Undefined

----------------------------------------------------------------------------
(* Recipe.toCooklang *)

RECURSIVE Join(_, _)
\* Array.prototype.join: the strings of strs with sep between neighbours.
Join(strs, sep) ==
    IF strs = <<>> THEN <<>>
    ELSE IF Len(strs) = 1 THEN strs[1]
    ELSE strs[1] \o sep \o Join(Tail(strs), sep)

RECURSIVE Concat(_)
Concat(strs) == IF strs = <<>> THEN <<>> ELSE strs[1] \o Concat(Tail(strs))

MetadataLine(entry) == <<">", ">", " ">> \o entry.key \o <<":", " ">> \o entry.value \o <<"\n">>

MetadataStr(m) == Concat([i \in 1..Len(m) |-> MetadataLine(m[i])])

Sigil(item) ==
    IF item.type = "ingredient" THEN <<"@">>
    ELSE IF item.type = "cookware" THEN <<"#">>
    ELSE <<"~">>

ItemStr(item) ==
    IF "value" \in DOMAIN item THEN item.value
    ELSE Sigil(item)
         \o item.name
         \o <<"{">>
         \o (IF Truthy(item.quantity) THEN JSToString(item.quantity) ELSE <<>>)
         \o (IF "units" \in DOMAIN item /\ Truthy(item.units)
             THEN <<"%">> \o JSToString(item.units) ELSE <<>>)
         \o <<"}">>

StepStr(step) == Concat([i \in 1..Len(step) |-> ItemStr(step[i])])

StepStrs(s) == [i \in 1..Len(s) |-> StepStr(s[i])]

ShopItemLine(x) ==
    x.name \o (IF Truthy(x.synonym) THEN <<"|">> \o JSToString(x.synonym) ELSE <<>>)

\* ShoppingListStr with the header written only for a category that has items.
ShoppingListStrSkipsEmpty(c) ==
    IF c.items = <<>> THEN <<>>
    ELSE c.category \o <<"\n">>
         \o Join([i \in 1..Len(c.items) |-> ShopItemLine(c.items[i])], <<"\n">>)

ShoppingListStr(c) ==
    c.category \o <<"\n">>
    \o Join([i \in 1..Len(c.items) |-> ShopItemLine(c.items[i])], <<"\n">>)

ShoppingListStrs(sl) == [i \in 1..Len(sl) |-> ShoppingListStr(sl[i])]

toCooklang(m, s, sl) ==
    Join(<<MetadataStr(m),
           Join(StepStrs(s), <<"\n", "\n">>),
           Join(ShoppingListStrs(sl), <<"\n", "\n">>)>>,
         <<"\n">>)

----------------------------------------------------------------------------
(* Recipe.toJSON: JSON.stringify({ metadata, steps }) *)

\* JSON.stringify of one character inside a string literal.
JSONChar(c) ==
    IF c = "\"" THEN <<"\\", "\"">>
    ELSE IF c = "\\" THEN <<"\\", "\\">>
    ELSE IF c = "\n" THEN <<"\\", "n">>
    ELSE <<c>>

JSONString(s) == <<"\"">> \o Concat([i \in 1..Len(s) |-> JSONChar(s[i])]) \o <<"\"">>

\* JSON.stringify of a number or a string.
JSONValue(v) == IF v.t = "number" THEN NumToStr(v.tenths) ELSE JSONString(v.chars)

KeyType == <<"t", "y", "p", "e">>
KeyValue == <<"v", "a", "l", "u", "e">>
KeyName == <<"n", "a", "m", "e">>
KeyQuantity == <<"q", "u", "a", "n", "t", "i", "t", "y">>
KeyUnits == <<"u", "n", "i", "t", "s">>
KeyMetadata == <<"m", "e", "t", "a", "d", "a", "t", "a">>
KeySteps == <<"s", "t", "e", "p", "s">>
KeyShoppingList == <<"s", "h", "o", "p", "p", "i", "n", "g", "L", "i", "s", "t">>

TypeChars(type) ==
    CASE type = "text" -> <<"t", "e", "x", "t">>
      [] type = "ingredient" -> <<"i", "n", "g", "r", "e", "d", "i", "e", "n", "t">>
      [] type = "cookware" -> <<"c", "o", "o", "k", "w", "a", "r", "e">>
      [] type = "timer" -> <<"t", "i", "m", "e", "r">>

\* One "key":value member; json is the value's encoding.
JSONMember(key, json) == JSONString(key) \o <<":">> \o json

\* An object's members; a property whose value is undefined is left out.
JSONObject(members) == <<"{">> \o Join(members, <<",">>) \o <<"}">>

JSONArray(elems) == <<"[">> \o Join(elems, <<",">>) \o <<"]">>

JSONItem(item) ==
    IF "value" \in DOMAIN item
    THEN JSONObject(<<JSONMember(KeyType, JSONString(TypeChars(item.type))),
                      JSONMember(KeyValue, JSONString(item.value))>>)
    ELSE JSONObject(
            <<JSONMember(KeyType, JSONString(TypeChars(item.type))),
              JSONMember(KeyName, JSONString(item.name))>>
            \o (IF item.quantity = Undefined THEN <<>>
                ELSE <<JSONMember(KeyQuantity, JSONValue(item.quantity))>>)
            \o (IF UnitsOf(item) = Undefined THEN <<>>
                ELSE <<JSONMember(KeyUnits, JSONValue(UnitsOf(item)))>>))

JSONStep(step) == JSONArray([i \in 1..Len(step) |-> JSONItem(step[i])])

JSONSteps(s) == JSONArray([i \in 1..Len(s) |-> JSONStep(s[i])])

JSONMetadata(m) ==
    JSONObject([i \in 1..Len(m) |-> JSONMember(m[i].key, JSONString(m[i].value))])

JSONShopItem(x) ==
    JSONObject(<<JSONMember(KeyName, JSONString(x.name))>>
               \o (IF x.synonym = Undefined THEN <<>>
                   ELSE <<JSONMember(<<"s", "y", "n", "o", "n", "y", "m">>, JSONValue(x.synonym))>>))

JSONShoppingList(sl) ==
    JSONObject([i \in 1..Len(sl) |->
        JSONMember(sl[i].category,
                   JSONArray([j \in 1..Len(sl[i].items) |-> JSONShopItem(sl[i].items[j])]))])

\* toJSON stringifying all three fields.
toJSONWholeRecipe(m, s, sl) ==
    JSONObject(<<JSONMember(KeyMetadata, JSONMetadata(m)),
                 JSONMember(KeySteps, JSONSteps(s)),
                 JSONMember(KeyShoppingList, JSONShoppingList(sl))>>)

toJSON(m, s, sl) ==
    JSONObject(<<JSONMember(KeyMetadata, JSONMetadata(m)),
                 JSONMember(KeySteps, JSONSteps(s))>>)

----------------------------------------------------------------------------
(* Parser.parse: comment stripping, then a line-by-line classification into
   metadata lines, the shopping-list section and step text. *)

Whitespace == {" ", "\t"}
Sigils == {"@", "#", "~"}
Punctuation ==
    {".", ",", ";", ":", "!", "?", "(", ")", "{", "}", "[", "]", "%", "|", "/",
     "-", ">", "<", "\"", "\\", "'"}

BlockOpen == <<"[", "-">>
BlockClose == <<"-", "]">>
LineComment == <<"-", "-">>
MetadataMarker == <<">", ">">>
\* The line that opens the trailing shopping-list section.
ShoppingListMarker == <<"[", "]">>

\* Whether marker occurs in s at position i.
At(s, i, marker) ==
    /\ i >= 1
    /\ i + Len(marker) - 1 <= Len(s)
    /\ SubSeq(s, i, i + Len(marker) - 1) = marker

\* The least position in P; 0 when P is empty.
First(P) == IF P = {} THEN 0 ELSE CHOOSE j \in P : \A k \in P : j <= k

\* The first position from i on at which s holds c; 0 when there is none.
IndexOf(s, c, i) == First({j \in i..Len(s) : s[j] = c})

\* s without its leading and trailing whitespace.
Trim(s) ==
    LET P == {j \in 1..Len(s) : s[j] \notin Whitespace}
    IN  IF P = {} THEN <<>>
        ELSE SubSeq(s, First(P), CHOOSE j \in P : \A k \in P : k <= j)

RECURSIVE StripFrom(_, _)
\* s from position i on without its comments.  A block comment runs to its
\* close, or to the end of the input; a line comment to the end of its line.
StripFrom(s, i) ==
    LET m == First({j \in i..Len(s) : At(s, j, BlockOpen) \/ At(s, j, LineComment)})
        close == First({j \in (m + 2)..Len(s) : At(s, j, BlockClose)})
        nl == IndexOf(s, "\n", m)
    IN  IF m = 0 THEN SubSeq(s, i, Len(s))
        ELSE SubSeq(s, i, m - 1)
             \o (IF At(s, m, BlockOpen)
                 THEN IF close = 0 THEN <<>> ELSE StripFrom(s, close + 2)
                 ELSE IF nl = 0 THEN <<>> ELSE StripFrom(s, nl))

StripComments(s) == StripFrom(s, 1)

RECURSIVE SplitLines(_)
SplitLines(s) ==
    LET nl == IndexOf(s, "\n", 1)
    IN  IF nl = 0 THEN <<s>>
        ELSE <<SubSeq(s, 1, nl - 1)>> \o SplitLines(SubSeq(s, nl + 1, Len(s)))

NoMatch == [matched |-> FALSE]

\* Metadata Line Reader: ">>" key ":" value, both trimmed.
ReadMetadataLine(line) ==
    LET t == Trim(line)
        colon == IndexOf(t, ":", 3)
    IN  IF At(t, 1, MetadataMarker) /\ colon # 0
        THEN [matched |-> TRUE,
              key |-> Trim(SubSeq(t, 3, colon - 1)),
              value |-> Trim(SubSeq(t, colon + 1, Len(t)))]
        ELSE NoMatch

RECURSIVE MapPut(_, _, _)
\* Map assignment: a key already present keeps its place and takes the new value.
MapPut(m, key, value) ==
    IF m = <<>> THEN <<MetaEntry(key, value)>>
    ELSE IF m[1].key = key THEN <<MetaEntry(key, value)>> \o Tail(m)
    ELSE <<m[1]>> \o MapPut(Tail(m), key, value)

IsDigit(c) == c \in {"0", "1", "2", "3", "4", "5", "6", "7", "8", "9"}
DigitValue(c) == CHOOSE d \in 0..9 : DigitChars[d + 1] = c
IsDigits(s) == s # <<>> /\ \A i \in 1..Len(s) : IsDigit(s[i])

RECURSIVE ToNat(_)
ToNat(s) == IF s = <<>> THEN 0 ELSE 10 * ToNat(SubSeq(s, 1, Len(s) - 1)) + DigitValue(s[Len(s)])

\* The two sides of t around position i.
Before(t, i) == Trim(SubSeq(t, 1, i - 1))
After(t, i) == Trim(SubSeq(t, i + 1, Len(t)))

\* a<sep>b with both sides digit strings.
IsPair(t, sep) ==
    LET i == IndexOf(t, sep, 1)
    IN  i # 0 /\ IsDigits(Before(t, i)) /\ IsDigits(After(t, i))

\* Tenths of the decimal a<sep>b; digits after the first decimal are beyond
\* the tenths this model keeps.
DecimalTenths(t, sep) ==
    LET i == IndexOf(t, sep, 1)
    IN  10 * ToNat(Before(t, i)) + DigitValue(After(t, i)[1])

\* Quantity Expression Reader: fraction, comma-decimal, plain number, else
\* the raw text; an empty slot is no quantity.
ReadQuantity(text) ==
    LET t == Trim(text)
        slash == IndexOf(t, "/", 1)
    IN  IF t = <<>> THEN Undefined
        ELSE IF IsPair(t, "/") /\ ToNat(After(t, slash)) # 0
             THEN Num((10 * ToNat(Before(t, slash))) \div ToNat(After(t, slash)))
        ELSE IF IsPair(t, ",") THEN Num(DecimalTenths(t, ","))
        ELSE IF IsDigits(t) THEN Num(10 * ToNat(t))
        ELSE IF IsPair(t, ".") THEN Num(DecimalTenths(t, "."))
        ELSE Str(t)

\* The position of the first "{" from i on with no sigil before it; 0 when
\* a sigil or the end of the line comes first.
BraceAfter(s, i) ==
    LET brace == IndexOf(s, "{", i)
        sigil == First({j \in i..Len(s) : s[j] \in Sigils})
    IN  IF brace # 0 /\ (sigil = 0 \/ brace < sigil) THEN brace ELSE 0

\* The last position of the run of word characters that starts at i (i - 1
\* when there is none).
WordEnd(s, i) ==
    LET stop == First({j \in i..Len(s) : s[j] \in Whitespace \cup Punctuation \cup Sigils})
    IN  IF stop = 0 THEN Len(s) ELSE stop - 1

ItemOfSigil(sigil, name, quantity, units) ==
    [type |-> (CASE sigil = "@" -> "ingredient" [] sigil = "#" -> "cookware" [] sigil = "~" -> "timer"),
     name |-> name, quantity |-> quantity, units |-> units]

\* Inline Item Scanner: the item whose sigil is at position i of line s, and
\* the position after it.
ScanItem(s, i) ==
    LET open == BraceAfter(s, i + 1)
        close == IF open = 0 THEN 0 ELSE IndexOf(s, "}", open + 1)
        word == WordEnd(s, i + 1)
    IN  IF open # 0 /\ close # 0
        THEN LET slot == SubSeq(s, open + 1, close - 1)
                 pct == IndexOf(slot, "%", 1)
                 qty == IF pct = 0 THEN slot ELSE SubSeq(slot, 1, pct - 1)
                 unit == IF pct = 0 THEN <<>> ELSE Trim(SubSeq(slot, pct + 1, Len(slot)))
             IN  [matched |-> TRUE,
                  item |-> ItemOfSigil(s[i], Trim(SubSeq(s, i + 1, open - 1)),
                                       ReadQuantity(qty),
                                       IF unit = <<>> THEN Undefined ELSE Str(unit)),
                  next |-> close + 1]
        ELSE IF word > i
        THEN [matched |-> TRUE,
              item |-> ItemOfSigil(s[i], SubSeq(s, i + 1, word), Undefined, Undefined),
              next |-> word + 1]
        ELSE NoMatch

TextRun(text) == IF text = <<>> THEN <<>> ELSE <<TextItem(text)>>

RECURSIVE ScanLine(_, _)
\* The items of line s from position i on: the literal run up to the next
\* sigil that starts an item, that item, and the rest of the line.
ScanLine(s, i) ==
    LET at == First({j \in i..Len(s) : s[j] \in Sigils /\ ScanItem(s, j).matched})
    IN  IF at = 0 THEN TextRun(SubSeq(s, i, Len(s)))
        ELSE TextRun(SubSeq(s, i, at - 1))
             \o <<ScanItem(s, at).item>>
             \o ScanLine(s, ScanItem(s, at).next)

\* Shopping List Block Reader: an item line, name and optional synonym.
ReadShopItem(line) ==
    LET t == Trim(line)
        bar == IndexOf(t, "|", 1)
    IN  IF bar = 0 THEN ShopItem(t, Undefined)
        ELSE ShopItem(Before(t, bar), Str(After(t, bar)))

RECURSIVE CategoryPut(_, _)
\* A header starts an empty item list under its name.
CategoryPut(sl, name) ==
    IF sl = <<>> THEN <<Category(name, <<>>)>>
    ELSE IF sl[1].category = name THEN <<Category(name, <<>>)>> \o Tail(sl)
    ELSE <<sl[1]>> \o CategoryPut(Tail(sl), name)

\* The shopping list after one line of the section: an indented line is an
\* item of the category named last, any other line a category header.
ShoppingLine(acc, line) ==
    IF Trim(line) = <<>> THEN acc
    ELSE IF line[1] \in Whitespace
    THEN IF ~acc.hasCategory THEN acc
         ELSE [acc EXCEPT !.shoppingList =
                  [k \in 1..Len(acc.shoppingList) |->
                      IF acc.shoppingList[k].category = acc.category
                      THEN Category(acc.category,
                                    Append(acc.shoppingList[k].items, ReadShopItem(line)))
                      ELSE acc.shoppingList[k]]]
    ELSE [acc EXCEPT !.shoppingList = CategoryPut(acc.shoppingList, Trim(line)),
                     !.category = Trim(line),
                     !.hasCategory = TRUE]

CloseStep(acc) ==
    IF acc.step = <<>> THEN acc
    ELSE [acc EXCEPT !.steps = Append(acc.steps, acc.step), !.step = <<>>]

\* Document Parser: the state after one line.
ParseLine(acc, line) ==
    IF acc.inShoppingList THEN ShoppingLine(acc, line)
    ELSE IF Trim(line) = <<>> THEN CloseStep(acc)
    ELSE IF ReadMetadataLine(line).matched
         THEN [acc EXCEPT !.metadata =
                  MapPut(acc.metadata, ReadMetadataLine(line).key, ReadMetadataLine(line).value)]
    ELSE IF Trim(line) = ShoppingListMarker
         THEN [CloseStep(acc) EXCEPT !.inShoppingList = TRUE]
    ELSE [acc EXCEPT !.step = acc.step \o ScanLine(line, 1)]

RECURSIVE ParseLines(_, _)
ParseLines(acc, lines) ==
    IF lines = <<>> THEN CloseStep(acc)
    ELSE ParseLines(ParseLine(acc, lines[1]), Tail(lines))

ParserStart ==
    [metadata |-> <<>>, steps |-> <<>>, shoppingList |-> <<>>, step |-> <<>>,
     inShoppingList |-> FALSE, category |-> <<>>, hasCategory |-> FALSE]

\* Parser.parse(source): the Recipe's three fields.
Parse(source) ==
    LET end == ParseLines(ParserStart, SplitLines(StripComments(source)))
    IN  [metadata |-> end.metadata, steps |-> end.steps, shoppingList |-> end.shoppingList]

----------------------------------------------------------------------------
(* new Recipe(source) *)

\* Object.assign with its arguments the wrong way round: the Recipe's fields
\* stay what they were.
ObjectAssignSwapped(target, src) == target

\* Object.assign(target, source): source's properties over target's.
ObjectAssign(target, src) ==
    [f \in DOMAIN target |-> IF f \in DOMAIN src THEN src[f] ELSE target[f]]

EmptyFields == [metadata |-> <<>>, steps |-> <<>>, shoppingList |-> <<>>]

\* A constructor that refuses an empty source instead of building an empty Recipe.
RecipeConstructorRejectsEmpty(source) ==
    IF Truthy(source)
    THEN [self |-> ObjectAssign(EmptyFields, Parse(source.chars)), parseCalls |-> 1, threw |-> FALSE]
    ELSE [self |-> EmptyFields, parseCalls |-> 0, threw |-> source # Undefined]

\* The constructor: the fields it leaves, how often it called Parser.parse,
\* and whether it threw.
RecipeConstructor(source) ==
    IF Truthy(source)
    THEN [self |-> ObjectAssign(EmptyFields, Parse(source.chars)), parseCalls |-> 1, threw |-> FALSE]
    ELSE [self |-> EmptyFields, parseCalls |-> 0, threw |-> FALSE]

----------------------------------------------------------------------------
(* Calls on a Recipe.  Each method is a function from the object's fields to
   the value returned and the fields the call leaves behind. *)

Fields(m, s, sl) == [metadata |-> m, steps |-> s, shoppingList |-> sl]

\* toCooklang taking the steps off the Recipe as it writes them.
toCooklangCallConsumesSteps(m, s, sl) ==
    [ret |-> Str(toCooklang(m, s, sl)), self |-> Fields(m, <<>>, sl)]

toCooklangCall(m, s, sl) == [ret |-> Str(toCooklang(m, s, sl)), self |-> Fields(m, s, sl)]

toJSONCall(m, s, sl) == [ret |-> Str(toJSON(m, s, sl)), self |-> Fields(m, s, sl)]

IsSerialization(c) == c.op \in {"toCooklang", "toJSON"}

\* A method call on the live Recipe; prev is the serialization call made just
\* before it, "none" when an assignment or the construction came between.
MethodCall(op, result) ==
    /\ pc = "live"
    /\ call' = [op |-> op, prev |-> IF IsSerialization(call) THEN call.op ELSE "none"]
    /\ ret' = result.ret
    /\ threw' = FALSE
    /\ metadata' = result.self.metadata
    /\ steps' = result.self.steps
    /\ shoppingList' = result.self.shoppingList
    /\ UNCHANGED <<pc, parseCalls, original>>

ToCooklang == MethodCall("toCooklang", toCooklangCall(metadata, steps, shoppingList))

ToJSON == MethodCall("toJSON", toJSONCall(metadata, steps, shoppingList))

----------------------------------------------------------------------------
(* Recipes the serializer is applied to *)

MaxItems == 2
MaxSteps == 2
MaxShopItems == 2

Chars_a == <<"a">>
Chars_b == <<"b">>
Chars_g == <<"g">>

ItemValues ==
    { TextItem(<<"a", " ">>),
      Ingredient(Chars_b, Undefined, Undefined),
      Ingredient(Chars_b, Num(0), Undefined),
      Ingredient(Chars_b, Num(15), Str(Chars_g)),
      Ingredient(Chars_b, Str(<<"c">>), Undefined),
      Cookware(<<"p">>, Num(20)),
      Timer(<<>>, Num(50), Str(<<"m">>)) }

\* Sequences over S of length at most n.
SeqsUpTo(S, n) == UNION {[1..k -> S] : k \in 0..n}

RECURSIVE StepSeqs(_, _)
\* Step sequences of at most n steps holding at most k items in all.
StepSeqs(n, k) ==
    IF n = 0 THEN {<<>>}
    ELSE {<<>>} \cup
         UNION { {<<st>> \o rest : rest \in StepSeqs(n - 1, k - Len(st))} :
                 st \in SeqsUpTo(ItemValues, k) }

StepsValues == StepSeqs(MaxSteps, MaxItems)

MetadataValues ==
    { <<>>,
      <<MetaEntry(<<"k">>, <<"v">>)>>,
      <<MetaEntry(<<"k">>, <<"v">>), MetaEntry(<<"j">>, <<"2">>)>> }

ShopItemValues ==
    { ShopItem(<<"x">>, Undefined),
      ShopItem(<<"x">>, Str(<<>>)),
      ShopItem(<<"x">>, Str(<<"y">>)),
      ShopItem(<<"x", "|", "y">>, Undefined) }

CategoryNames == {<<"c">>, <<"d">>}

RECURSIVE CategorySeqs(_, _)
\* Shopping lists over the category names in names, holding at most k items.
CategorySeqs(names, k) ==
    {<<>>} \cup
    UNION { UNION { {<<Category(c, its)>> \o rest :
                       rest \in CategorySeqs(names \ {c}, k - Len(its))} :
                    its \in SeqsUpTo(ShopItemValues, k) } :
            c \in names }

ShoppingListValues == CategorySeqs(CategoryNames, MaxShopItems)

OneTextStep == <<<<TextItem(Chars_a)>>>>

FreshCall ==
    /\ pc = "live"
    /\ parseCalls = 0
    /\ call = [op |-> "none"]
    /\ ret = Undefined
    /\ threw = FALSE
    /\ original = NoRecipe

\* Recipes that vary in their steps.
InitSteps ==
    /\ metadata \in {<<>>, <<MetaEntry(<<"k">>, <<"v">>)>>}
    /\ steps \in StepsValues
    /\ shoppingList = <<>>
    /\ FreshCall

\* Recipes that vary in their shopping list.
InitShopping ==
    /\ metadata \in MetadataValues
    /\ steps \in {<<>>, OneTextStep}
    /\ shoppingList \in ShoppingListValues
    /\ FreshCall

\* new Recipe(recipe.toCooklang()): the Recipe parsed back from its own text.
Reparse ==
    LET text == toCooklangCall(metadata, steps, shoppingList).ret
        made == RecipeConstructor(text)
    IN  /\ pc = "live"
        /\ pc' = "reparsed"
        /\ call' = [op |-> "reparse", source |-> text]
        /\ original' = Fields(metadata, steps, shoppingList)
        /\ metadata' = made.self.metadata
        /\ steps' = made.self.steps
        /\ shoppingList' = made.self.shoppingList
        /\ parseCalls' = parseCalls + made.parseCalls
        /\ threw' = made.threw
        /\ ret' = Undefined

NextSerialize == ToCooklang \/ ToJSON \/ Reparse

SpecSteps == InitSteps /\ [][NextSerialize]_vars

SpecShopping == InitShopping /\ [][NextSerialize]_vars

----------------------------------------------------------------------------
(* The life of one Recipe: construction, assignments to its public fields,
   serialization calls. *)

MaxSrcLen == 3

SrcAlphabet == {"a", "@", "{", "}", "[", "-", "\n"}

SampleSources ==
    { <<">", ">", " ", "k", ":", " ", "v", "\n", "\n", "a", " ", "@", "b", " ", "c", "{", "1", ",", "5", "%", "g", "}", ".">>,
      <<">", ">", "k", ":", "1", "\n", ">", ">", "k", ":", "2">>,
      <<"@", "b", "{", "1", "/", "2", "}", "-", "-", "x", "\n", "\n", "#", "p", " ", "~", "{", "5", "%", "m", "}">>,
      <<">", ">", "k", ":", "v", "\n", "a", "[", "-", "x", "\n", "y", "-", "]", "b", "\n", "[", "]", "\n", "c", "\n", " ", "x", "|", "y">>,
      <<"@", "b", "{", "a", "%">>,
      <<"[", "-", " ", ">", ">", "k", ":", "v">> }

SourceValues ==
    {Undefined} \cup {Str(src) : src \in SeqsUpTo(SrcAlphabet, MaxSrcLen) \cup SampleSources}

Init ==
    /\ pc = "idle"
    /\ EmptyRecipeState
    /\ call = [op |-> "none"]
    /\ ret = Undefined
    /\ threw = FALSE

Construct(source) ==
    LET made == RecipeConstructor(source)
    IN  /\ pc = "idle"
        /\ pc' = IF made.threw THEN "failed" ELSE "live"
        /\ call' = [op |-> "new", source |-> source]
        /\ metadata' = made.self.metadata
        /\ steps' = made.self.steps
        /\ shoppingList' = made.self.shoppingList
        /\ parseCalls' = parseCalls + made.parseCalls
        /\ threw' = made.threw
        /\ ret' = Undefined
        /\ UNCHANGED original

\* recipe.<field> = value, by the Recipe's owner.
Assigned(field) ==
    /\ pc = "live"
    /\ call' = [op |-> "assign", field |-> field]
    /\ ret' = Undefined
    /\ threw' = FALSE
    /\ UNCHANGED <<pc, parseCalls, original>>

AssignMetadata(m) ==
    /\ Assigned("metadata")
    /\ metadata' = m
    /\ UNCHANGED <<steps, shoppingList>>

AssignSteps(s) ==
    /\ Assigned("steps")
    /\ steps' = s
    /\ UNCHANGED <<metadata, shoppingList>>

AssignShoppingList(sl) ==
    /\ Assigned("shoppingList")
    /\ shoppingList' = sl
    /\ UNCHANGED <<metadata, steps>>

AssignedMetadata == {<<MetaEntry(<<"k">>, <<"v">>)>>}
AssignedSteps == {<<<<TextItem(Chars_a), Ingredient(Chars_b, Num(0), Undefined)>>>>}
AssignedShoppingLists == {<<Category(<<"c">>, <<ShopItem(<<"x">>, Str(<<"y">>))>>)>>}

Next ==
    \/ \E source \in SourceValues : Construct(source)
    \/ \E m \in AssignedMetadata : AssignMetadata(m)
    \/ \E s \in AssignedSteps : AssignSteps(s)
    \/ \E sl \in AssignedShoppingLists : AssignShoppingList(sl)
    \/ ToCooklang
    \/ ToJSON

Spec == Init /\ [][Next]_vars

----------------------------------------------------------------------------
(* Claims about getImageURL *)

StepOf(options) == IF options = NoOptions THEN Undefined ELSE options.step
ExtensionOf(options) == IF options = NoOptions THEN Undefined ELSE options.extension

IsPositiveInteger(v) == v.t = "number" /\ v.tenths > 0 /\ v.tenths % 10 = 0

\* C1: getImageURL returns name, then '.' + step whenever a step is given
\* (every given step appears as a segment), then '.' + extension, the
\* extension being "png" when none is given.
C1_URLFormat ==
    call.op = "getImageURL" =>
        ret = Str(call.name
                  \o (IF StepOf(call.options) # Undefined
                      THEN <<".">> \o JSToString(StepOf(call.options)) ELSE <<>>)
                  \o <<".">>
                  \o (IF ExtensionOf(call.options) # Undefined
                      THEN JSToString(ExtensionOf(call.options)) ELSE <<"p", "n", "g">>))

\* C6: a call whose step is given and is not a positive integer ends in an
\* invalid-argument error and returns no URL; a URL is returned only when the
\* step is absent or a positive integer.
C6_InvalidStepRejected ==
    call.op = "getImageURL" =>
        IF StepOf(call.options) = Undefined \/ IsPositiveInteger(StepOf(call.options))
        THEN ~threw /\ ret.t = "string"
        ELSE threw /\ ret = Undefined

----------------------------------------------------------------------------
(* Claims about toCooklang and toJSON *)

IsPrefix(p, s) == Len(p) <= Len(s) /\ SubSeq(s, 1, Len(p)) = p
IsSuffix(p, s) == Len(p) <= Len(s) /\ SubSeq(s, Len(s) - Len(p) + 1, Len(s)) = p

\* What the claim asks of one annotated item: the quantity whenever the item
\* has one, '%' and the units whenever it has units.
C2_ItemText(item) ==
    IF item.type = "text" THEN item.value
    ELSE (CASE item.type = "ingredient" -> <<"@">>
            [] item.type = "cookware" -> <<"#">>
            [] item.type = "timer" -> <<"~">>)
         \o item.name \o <<"{">>
         \o (IF item.quantity # Undefined THEN JSToString(item.quantity) ELSE <<>>)
         \o (IF UnitsOf(item) # Undefined THEN <<"%">> \o JSToString(UnitsOf(item)) ELSE <<>>)
         \o <<"}">>

C2_StepText(step) == Concat([i \in 1..Len(step) |-> C2_ItemText(step[i])])

\* C2: toCooklang emits every step's items in order, a Text item verbatim and
\* an annotated item as sigil + name + '{' + quantity (whenever present, a
\* numeric 0 included) + '%' + units (whenever present) + '}'.
C2_StepItemsSerialized ==
    call.op = "toCooklang" =>
        ret = Str(MetadataStr(metadata) \o <<"\n">>
                  \o Join([i \in 1..Len(steps) |-> C2_StepText(steps[i])], <<"\n", "\n">>)
                  \o <<"\n">>
                  \o Join(ShoppingListStrs(shoppingList), <<"\n", "\n">>))

StepsBlock == Join(StepStrs(steps), <<"\n", "\n">>)
ShoppingBlock == Join(ShoppingListStrs(shoppingList), <<"\n", "\n">>)

\* C3: in toCooklang's output two adjacent non-empty sections are separated
\* by an empty line: the last metadata line from the first step, and the last
\* step from the first shopping-list category header.
C3_BlankLineBetweenSections ==
    call.op = "toCooklang" =>
        /\ (metadata # <<>> /\ StepsBlock # <<>>) =>
               IsPrefix(MetadataStr(metadata) \o <<"\n">> \o StepsBlock, ret.chars)
        /\ (StepsBlock # <<>> /\ shoppingList # <<>>) =>
               IsSuffix(StepsBlock \o <<"\n", "\n">> \o ShoppingBlock, ret.chars)

\* An item has a synonym when its synonym is a non-empty string.
HasSynonym(x) == x.synonym # Undefined /\ x.synonym # Str(<<>>)

C5_ItemLine(x) == IF HasSynonym(x) THEN x.name \o <<"|">> \o x.synonym.chars ELSE x.name

RECURSIVE C5_ItemLines(_)
\* One line per item; every line but the category's last ends in a line break.
C5_ItemLines(items) ==
    IF items = <<>> THEN <<>>
    ELSE C5_ItemLine(items[1])
         \o (IF Len(items) > 1 THEN <<"\n">> ELSE <<>>)
         \o C5_ItemLines(Tail(items))

RECURSIVE C5_Categories(_)
\* Header line, item lines, and a blank line before the next category.
C5_Categories(sl) ==
    IF sl = <<>> THEN <<>>
    ELSE sl[1].category \o <<"\n">> \o C5_ItemLines(sl[1].items)
         \o (IF Len(sl) > 1 THEN <<"\n", "\n">> ELSE <<>>)
         \o C5_Categories(Tail(sl))

PlainText(str) == str # <<>> /\ \A i \in 1..Len(str) : str[i] \notin {"\n", "|"}

PlainShoppingList(sl) ==
    \A i \in 1..Len(sl) :
        /\ PlainText(sl[i].category)
        /\ \A j \in 1..Len(sl[i].items) :
              /\ PlainText(sl[i].items[j].name)
              /\ sl[i].items[j].synonym # Undefined =>
                     /\ sl[i].items[j].synonym.t = "string"
                     /\ PlainText(sl[i].items[j].synonym.chars)

\* C10 as stated: toJSON's output is the same for any two Recipes that differ
\* only in their shoppingList, and toCooklang's output differs for them.
C10_ShoppingListOnlyInCooklang ==
    \A sl2 \in ShoppingListValues \ {shoppingList} :
        /\ call.op = "toJSON" => ret = toJSONCall(metadata, steps, sl2).ret
        /\ call.op = "toCooklang" => ret # toCooklangCall(metadata, steps, sl2).ret

\* C10 as amended: toJSON's output holds exactly the metadata and the steps,
\* so it is that of the same Recipe without its shoppingList; toCooklang
\* tells two such Recipes apart whenever both shopping lists are plain.
C10_JSONOmitsShoppingList ==
    /\ call.op = "toJSON" =>
          /\ ret = toJSONCall(metadata, steps, <<>>).ret
          /\ ret = Str(<<"{">> \o JSONMember(KeyMetadata, JSONMetadata(metadata))
                       \o <<",">> \o JSONMember(KeySteps, JSONSteps(steps)) \o <<"}">>)
    /\ (call.op = "toCooklang" /\ PlainShoppingList(shoppingList)) =>
          \A sl2 \in ShoppingListValues \ {shoppingList} :
              PlainShoppingList(sl2) => ret # toCooklangCall(metadata, steps, sl2).ret

C10_Witness ==
    /\ call.op = "toJSON"
    /\ Len(shoppingList) = 2
    /\ steps # <<>>
    /\ metadata # <<>>

----------------------------------------------------------------------------
(* Claims about the constructor and the round trip *)

IsChars(x) == \A i \in 1..Len(x) : x[i] \in STRING
IsJSVal(v) == v.t \in {"undefined", "number", "string"}

IsMetadata(m) == \A i \in 1..Len(m) : IsChars(m[i].key) /\ IsChars(m[i].value)

IsItem(item) ==
    IF item.type = "text" THEN IsChars(item.value)
    ELSE /\ item.type \in {"ingredient", "cookware", "timer"}
         /\ IsChars(item.name)
         /\ IsJSVal(item.quantity)
         /\ IsJSVal(UnitsOf(item))

IsSteps(s) == \A i \in 1..Len(s) : \A j \in 1..Len(s[i]) : IsItem(s[i][j])

IsShoppingList(sl) ==
    \A i \in 1..Len(sl) :
        /\ IsChars(sl[i].category)
        /\ \A j \in 1..Len(sl[i].items) :
              IsChars(sl[i].items[j].name) /\ IsJSVal(sl[i].items[j].synonym)

C8_ConstructorPopulates ==
    call.op = "new" =>
        IF call.source = Undefined
        THEN Fields(metadata, steps, shoppingList) = EmptyFields /\ parseCalls = 0
        ELSE Fields(metadata, steps, shoppingList) = Parse(call.source.chars)

C8_Witness ==
    /\ call.op = "new"
    /\ call.source # Undefined
    /\ metadata # <<>>
    /\ steps # <<>>
    /\ shoppingList # <<>>
    /\ parseCalls = 1

\* C9: a toCooklang or toJSON call leaves metadata, steps and shoppingList as
\* they were, and a toCooklang call that directly follows another returns
\* the same string.
C9_SerializationIsPure ==
    [][ IsSerialization(call') =>
           /\ <<metadata, steps, shoppingList>>' = <<metadata, steps, shoppingList>>
           /\ (call.op = "toCooklang" /\ call'.op = "toCooklang") => ret' = ret ]_vars

C9_Witness ==
    /\ call.op = "toCooklang"
    /\ call.prev = "toCooklang"
    /\ parseCalls = 1
    /\ steps \in AssignedSteps
    /\ metadata # <<>>

\* The canonical subset: no shopping list, no empty step, no two Text items
\* in a row, quantities numeric or absent.
Canonical(r) ==
    /\ r.shoppingList = <<>>
    /\ \A i \in 1..Len(r.steps) :
          /\ r.steps[i] # <<>>
          /\ \A j \in 1..Len(r.steps[i]) :
                LET item == r.steps[i][j]
                IN  IF item.type = "text"
                    THEN j = Len(r.steps[i]) \/ r.steps[i][j + 1].type # "text"
                    ELSE item.quantity.t \in {"undefined", "number"}

SameItem(x, y) ==
    /\ x.type = y.type
    /\ IF x.type = "text" THEN x.value = y.value
       ELSE x.name = y.name /\ x.quantity = y.quantity /\ UnitsOf(x) = UnitsOf(y)

SameSteps(s1, s2) ==
    /\ Len(s1) = Len(s2)
    /\ \A i \in 1..Len(s1) :
          /\ Len(s1[i]) = Len(s2[i])
          /\ \A j \in 1..Len(s1[i]) : SameItem(s1[i][j], s2[i][j])

\* C4: parsing the text toCooklang returns for a Recipe of the canonical
\* subset gives back its metadata, its steps (numeric quantities compared by
\* value) and its shopping list.
C4_RoundTrip ==
    (call.op = "reparse" /\ Canonical(original)) =>
        /\ metadata = original.metadata
        /\ SameSteps(steps, original.steps)
        /\ shoppingList = original.shoppingList

====
